---- MODULE Spec2Model ----
(***************************************************************************)
(* pipe-while-read: the per-line command dispatch loop of src/main.rs.     *)
(*                                                                         *)
(* Text is modelled as a sequence of one-character strings.  Standard      *)
(* input is a finite byte stream; BufRead::lines() is modelled by what it  *)
(* does (read up to and including the next LF, validate the chunk as       *)
(* UTF-8, strip one trailing LF and then one trailing CR).                 *)
(* An Option<T> is a sequence of length 0 (None) or 1 (Some).              *)
(***************************************************************************)
EXTENDS Integers, Sequences, FiniteSets, TLC

VARIABLES exe, fixed_args, dry_run, input, pos, line, last_status, pc,
          stdout, stderr, launches, procs, error, exit_code

vars == <<exe, fixed_args, dry_run, input, pos, line, last_status, pc,
          stdout, stderr, launches, procs, error, exit_code>>

(* ------------------------------ bounds --------------------------------- *)
MaxInput == 3
MaxExitCode == 2

(* ----------------------------- constants ------------------------------- *)
SuccessCode == 0
FailureCode == 1

None == <<>>
Some(x) == <<x>>

LF == "\n"
CR == "\r"
SP == " "
BAD == "BAD"
Bytes == {"a", SP, LF, CR, BAD}

Commands == { <<<<"e">>>>, <<<<"e">>, <<"x">>>>, <<<<"e">>, <<"x">>, <<"y">>>> }

ExitCodes == 0..MaxExitCode

BoundedSeq(S, n) == UNION {[1..k -> S] : k \in 0..n}

Last(s) == s[Len(s)]
DropLast(s) == SubSeq(s, 1, Len(s) - 1)

(* ------------------------- reading input lines ------------------------- *)
\* BufRead::read_until(b'\n'): index of the last byte of the chunk that
\* starts at p (the first LF at or after p, or the end of the stream).
ChunkEnd(s, p) ==
    IF \E i \in p..Len(s) : s[i] = LF
    THEN CHOOSE i \in p..Len(s) : s[i] = LF /\ \A j \in p..(i - 1) : s[j] # LF
    ELSE Len(s)

Utf8Valid(buf) == \A i \in 1..Len(buf) : buf[i] # BAD

\* Lines::next(): strip one trailing LF, and then one trailing CR.
StripTerminator(buf) ==
    IF Len(buf) > 0 /\ Last(buf) = LF
    THEN LET b == DropLast(buf)
         IN  IF Len(b) > 0 /\ Last(b) = CR THEN DropLast(b) ELSE b
    ELSE buf

\* One item of the lines() iterator at read position p.
LineItem(s, p) ==
    LET chunk == SubSeq(s, p, ChunkEnd(s, p))
    IN  IF Utf8Valid(chunk)
        THEN [ok |-> TRUE, text |-> StripTerminator(chunk)]
        ELSE [ok |-> FALSE, text |-> <<>>]

\* Every item the lines() iterator yields for stream s from position p on.
RECURSIVE LinesFrom(_, _)
LinesFrom(s, p) ==
    IF p > Len(s) THEN <<>>
    ELSE <<LineItem(s, p)>> \o LinesFrom(s, ChunkEnd(s, p) + 1)

AllLines == LinesFrom(input, 1)

(* --------------------------- dry-run output ---------------------------- *)
\* [String]::join(sep)
RECURSIVE Join(_, _)
Join(ss, sep) ==
    IF ss = <<>> THEN <<>>
    ELSE IF Len(ss) = 1 THEN ss[1]
    ELSE ss[1] \o sep \o Join(Tail(ss), sep)

DryRunPrefix == <<"[DRY RUN]", SP>>

DryRunLineAlwaysJoined(e, fixed, l) ==
    DryRunPrefix \o e \o <<SP>> \o Join(fixed, <<SP>>) \o <<SP>> \o l

DryRunLine(e, fixed, l) ==
    IF fixed = <<>>
    THEN DryRunPrefix \o e \o <<SP>> \o l
    ELSE DryRunPrefix \o e \o <<SP>> \o Join(fixed, <<SP>>) \o <<SP>> \o l

(* ------------------------- subprocess invocation ----------------------- *)
\* str::split_whitespace, used only by the word-splitting variant below.
RECURSIVE Words(_, _)
Words(l, cur) ==
    IF l = <<>> THEN (IF cur = <<>> THEN <<>> ELSE <<cur>>)
    ELSE IF Head(l) = SP
         THEN (IF cur = <<>> THEN <<>> ELSE <<cur>>) \o Words(Tail(l), <<>>)
         ELSE Words(Tail(l), Append(cur, Head(l)))

BuildArgvWordSplit(fixed, l) == fixed \o Words(l, <<>>)

\* Command::new(&exe).args(&fixed_args).arg(&line)
BuildArgv(fixed, l) == fixed \o <<l>>

\* ExitStatus values a terminated child can have: a normal exit with a
\* code, or an abnormal termination (signal) with no code.
Statuses == [code : {Some(c) : c \in ExitCodes}, signaled : {FALSE}]
            \cup {[code |-> None, signaled |-> TRUE]}

NoStatus == [code |-> None, signaled |-> FALSE]

\* ExitStatus::success()
Success(st) == st.code = Some(0)

RecordStatusKeepPrevious(prev, st) == IF st.code = None THEN prev ELSE st.code

RecordStatusAggregate(prev, st) ==
    IF prev # None /\ prev # Some(0) THEN prev ELSE st.code

\* last_status = status.code();
RecordStatus(prev, st) == st.code

InitialStatusZero == Some(0)

\* let mut last_status: Option<i32> = None;
InitialStatus == None

FinalCodeIgnoreStatus(ls) == SuccessCode

\* if let Some(code) = last_status { exit(code) }  Ok(())
FinalCode(ls) == IF ls # None THEN ls[1] ELSE SuccessCode

\* eprintln!("command exited with {}", status)
Diagnostic(st) == [msg |-> "command exited with", cause |-> "", status |-> st]
\* the report of an Err returned from main
ErrorReport(kind) == [msg |-> "Error", cause |-> kind, status |-> NoStatus]

(* ------------------------------- Init ---------------------------------- *)
Init ==
    /\ \E parts \in Commands : exe = Head(parts) /\ fixed_args = Tail(parts)
    /\ dry_run \in BOOLEAN
    /\ input \in BoundedSeq(Bytes, MaxInput)
    /\ pos = 1
    /\ line = <<>>
    /\ last_status = InitialStatus
    /\ pc = "read"
    /\ stdout = <<>>
    /\ stderr = <<>>
    /\ launches = <<>>
    /\ procs = <<>>
    /\ error = None
    /\ exit_code = None

config == <<exe, fixed_args, dry_run, input>>

\* main returns Err(e): the runtime reports it and exits with failure.
Fail(kind) ==
    /\ error' = Some(kind)
    /\ stderr' = Append(stderr, ErrorReport(kind))
    /\ exit_code' = Some(FailureCode)
    /\ pc' = "exited"

(* ------------------------------ actions -------------------------------- *)
\* for line_res in stdin.lock().lines(): the iterator is exhausted.
ReadEof ==
    /\ pc = "read"
    /\ pos > Len(input)
    /\ pc' = "finish"
    /\ UNCHANGED <<config, pos, line, last_status, stdout, stderr, launches,
                   procs, error, exit_code>>

ReadDecodeErrorSkip ==
    /\ pc = "read"
    /\ pos <= Len(input)
    /\ ~LineItem(input, pos).ok
    /\ pos' = ChunkEnd(input, pos) + 1
    /\ UNCHANGED <<config, pc, line, last_status, stdout, stderr, launches,
                   procs, error, exit_code>>

\* let line = line_res?;  with line_res = Err(invalid UTF-8)
ReadDecodeError ==
    /\ pc = "read"
    /\ pos <= Len(input)
    /\ ~LineItem(input, pos).ok
    /\ pos' = ChunkEnd(input, pos) + 1
    /\ Fail("decode")
    /\ UNCHANGED <<config, line, last_status, stdout, launches, procs>>

\* let line = line_res?;  with line_res = Ok(line)
ReadLine ==
    /\ pc = "read"
    /\ pos <= Len(input)
    /\ LineItem(input, pos).ok
    /\ line' = LineItem(input, pos).text
    /\ pos' = ChunkEnd(input, pos) + 1
    /\ pc' = "body"
    /\ UNCHANGED <<config, last_status, stdout, stderr, launches, procs,
                   error, exit_code>>

\* if dry_run { println!(...); continue; }
DryRunPrint ==
    /\ pc = "body"
    /\ dry_run
    /\ stdout' = Append(stdout, DryRunLine(exe, fixed_args, line))
    /\ pc' = "read"
    /\ UNCHANGED <<config, pos, line, last_status, stderr, launches, procs,
                   error, exit_code>>

NewProc == [program |-> exe, argv |-> BuildArgv(fixed_args, line),
            stdin |-> "null", state |-> "running", status |-> NoStatus]

SpawnNoWait ==
    /\ pc = "body"
    /\ ~dry_run
    /\ launches' = Append(launches, BuildArgv(fixed_args, line))
    /\ procs' = Append(procs, NewProc)
    /\ pc' = "read"
    /\ UNCHANGED <<config, pos, line, last_status, stdout, stderr, error,
                   exit_code>>

\* Command::status(): the child is started; the dispatcher then blocks.
Spawn ==
    /\ pc = "body"
    /\ ~dry_run
    /\ launches' = Append(launches, BuildArgv(fixed_args, line))
    /\ procs' = Append(procs, NewProc)
    /\ pc' = "wait"
    /\ UNCHANGED <<config, pos, line, last_status, stdout, stderr, error,
                   exit_code>>

SpawnFailRelay ==
    /\ pc = "body"
    /\ ~dry_run
    /\ launches' = Append(launches, BuildArgv(fixed_args, line))
    /\ error' = Some("spawn")
    /\ stderr' = Append(stderr, ErrorReport("spawn"))
    /\ exit_code' = Some(FinalCode(last_status))
    /\ pc' = "exited"
    /\ UNCHANGED <<config, pos, line, last_status, stdout, procs>>

\* Command::status()?  with Err: the executable cannot be started.
SpawnFail ==
    /\ pc = "body"
    /\ ~dry_run
    /\ launches' = Append(launches, BuildArgv(fixed_args, line))
    /\ Fail("spawn")
    /\ UNCHANGED <<config, pos, line, last_status, stdout, procs>>

\* The running child terminates, normally or abnormally (environment step).
ChildExit ==
    /\ \E i \in 1..Len(procs) :
          /\ procs[i].state = "running"
          /\ \E st \in Statuses :
                procs' = [procs EXCEPT ![i].state = "terminated",
                                       ![i].status = st]
    /\ UNCHANGED <<config, pos, line, last_status, pc, stdout, stderr,
                   launches, error, exit_code>>

WaitStopOnFailure ==
    /\ pc = "wait"
    /\ Last(procs).state = "terminated"
    /\ LET st == Last(procs).status
       IN  /\ last_status' = RecordStatus(last_status, st)
           /\ stderr' = IF ~Success(st) THEN Append(stderr, Diagnostic(st))
                        ELSE stderr
           /\ pc' = IF ~Success(st) THEN "finish" ELSE "read"
    /\ UNCHANGED <<config, pos, line, stdout, launches, procs, error,
                   exit_code>>

\* Command::status() returns Ok(status): record it, report non-success.
Wait ==
    /\ pc = "wait"
    /\ Last(procs).state = "terminated"
    /\ LET st == Last(procs).status
       IN  /\ last_status' = RecordStatus(last_status, st)
           /\ stderr' = IF ~Success(st) THEN Append(stderr, Diagnostic(st))
                        ELSE stderr
    /\ pc' = "read"
    /\ UNCHANGED <<config, pos, line, stdout, launches, procs, error,
                   exit_code>>

\* After the loop: exit(code) if a status is recorded, else Ok(()).
Finish ==
    /\ pc = "finish"
    /\ exit_code' = Some(FinalCode(last_status))
    /\ pc' = "exited"
    /\ UNCHANGED <<config, pos, line, last_status, stdout, stderr, launches,
                   procs, error>>

Next ==
    \/ ReadEof
    \/ ReadDecodeError
    \/ ReadLine
    \/ DryRunPrint
    \/ Spawn
    \/ SpawnFail
    \/ ChildExit
    \/ Wait
    \/ Finish

Spec == Init /\ [][Next]_vars

(* ------------------------------ typing --------------------------------- *)
TypeOK ==
    /\ pc \in {"read", "body", "wait", "finish", "exited"}
    /\ dry_run \in BOOLEAN
    /\ pos \in 1..(Len(input) + 1)
    /\ Len(last_status) <= 1
    /\ Len(error) <= 1
    /\ Len(exit_code) <= 1

(* ------------------------- derived quantities -------------------------- *)
\* The children whose result the dispatcher has already received.
Recorded == IF pc = "wait" THEN DropLast(procs) ELSE procs

Running == {i \in 1..Len(procs) : procs[i].state = "running"}

\* Number of items the lines() iterator has yielded so far.
Consumed == Len(AllLines) - Len(LinesFrom(input, pos))

IsChildDiagnostic(m) == m.msg = "command exited with"
ChildDiagnostics == SelectSeq(stderr, IsChildDiagnostic)

DidNotSucceed(p) == ~Success(p.status)

HasBadLine == LET lines == AllLines IN \E i \in 1..Len(lines) : ~lines[i].ok
FirstBad == LET lines == AllLines
            IN  CHOOSE i \in 1..Len(lines) :
                    ~lines[i].ok /\ \A j \in 1..(i - 1) : lines[j].ok

\* The description line the dry-run contract prescribes for input line l.
ExpectedDescription(l) ==
    DryRunPrefix \o exe \o <<SP>>
      \o (IF fixed_args = <<>> THEN <<>> ELSE Join(fixed_args, <<SP>>) \o <<SP>>)
      \o l

(* ------------------------------- claims -------------------------------- *)

\* C1: in execute mode, when every spawn succeeds and the input ends, the
\* reported exit code is the exit code of the last executed child, whatever
\* the earlier children returned (last writer wins, no aggregation).
C1_LastChildWins ==
    (/\ ~dry_run
     /\ pc = "exited"
     /\ error = None
     /\ procs # <<>>
     /\ Last(procs).status.code # None)
    => exit_code = Last(procs).status.code

C1_Witness ==
    /\ ~dry_run
    /\ pc = "exited"
    /\ error = None
    /\ Len(procs) >= 2
    /\ procs[1].status.code = Some(1)
    /\ Last(procs).status.code = Some(0)
    /\ exit_code = Some(0)

C3_ExitCodeAtEndOfInput ==
    (pc = "exited" /\ error = None)
    => /\ last_status # None => exit_code = last_status
       /\ last_status = None => exit_code = Some(0)

C3_Witness ==
    /\ pc = "exited"
    /\ error = None
    /\ last_status = Some(2)
    /\ exit_code = Some(2)

\* C4: in dry-run mode nothing is ever spawned, Last Status stays unset, the
\* i-th printed line is the description of the i-th input line (fixed-args
\* segment and separator omitted when there are no fixed args), exactly one
\* line per input line is printed by the end, and the run exits with success.
C4_DryRun ==
    dry_run =>
      LET lines == AllLines
          consumed == Consumed
      IN  /\ procs = <<>>
          /\ launches = <<>>
          /\ last_status = None
          /\ Len(stdout) <= Len(lines)
          /\ Len(stdout) = IF pc = "body" THEN consumed - 1
                           ELSE IF error # None THEN consumed - 1 ELSE consumed
          /\ \A i \in 1..Len(stdout) :
                /\ lines[i].ok
                /\ stdout[i] = ExpectedDescription(lines[i].text)
          /\ (pc = "exited" /\ error = None)
                => /\ Len(stdout) = Len(lines)
                   /\ exit_code = Some(0)

C4_Witness ==
    /\ dry_run
    /\ pc = "exited"
    /\ error = None
    /\ fixed_args = <<>>
    /\ Len(stdout) >= 2
    /\ stdout[2] = ExpectedDescription(<<"a">>)

\* C5: in execute mode one subprocess is launched per line, in input order
\* and once only, and the i-th argument vector is the fixed arguments
\* followed by the i-th line as a single unaltered final argument.
C5_OneSpawnPerLine ==
    ~dry_run =>
      LET lines == AllLines
          consumed == Consumed
      IN  /\ stdout = <<>>
          /\ Len(launches) <= Len(lines)
          /\ Len(launches) = IF pc = "body" THEN consumed - 1
                             ELSE IF error = Some("decode") THEN consumed - 1
                             ELSE consumed
          /\ \A i \in 1..Len(launches) :
                /\ lines[i].ok
                /\ Len(launches[i]) = Len(fixed_args) + 1
                /\ SubSeq(launches[i], 1, Len(fixed_args)) = fixed_args
                /\ Last(launches[i]) = lines[i].text
          /\ Len(procs) = IF error = Some("spawn") THEN Len(launches) - 1
                          ELSE Len(launches)
          /\ \A i \in 1..Len(procs) :
                /\ procs[i].program = exe
                /\ procs[i].argv = launches[i]
          /\ (pc = "exited" /\ error = None) => Len(procs) = Len(lines)

C5_Witness ==
    /\ ~dry_run
    /\ pc = "exited"
    /\ error = None
    /\ fixed_args # <<>>
    /\ Len(procs) >= 2
    /\ Last(procs[1].argv) = <<SP>>
    /\ Last(procs[2].argv) = <<"a">>

\* C6: a failed spawn aborts the run at once: no later line is read, no
\* further subprocess is launched, and the exit code is the dispatcher's own
\* non-zero failure code, not the value held in Last Status.
C6_SpawnFailureIsFatal ==
    error = Some("spawn") =>
      /\ pc = "exited"
      /\ exit_code = Some(FailureCode)
      /\ FailureCode # SuccessCode
      /\ Len(launches) = Consumed
      /\ Len(procs) = Len(launches) - 1
      /\ Running = {}
      /\ Last(stderr) = ErrorReport("spawn")

C6_Witness ==
    /\ error = Some("spawn")
    /\ last_status = Some(2)
    /\ exit_code = Some(FailureCode)
    /\ pos <= Len(input)

\* C7: a child that ran but did not succeed never stops the loop: it gets
\* exactly one diagnostic (and a successful child gets none), and a run that
\* ends without a decode or launch error has consumed the whole input.
C7_NonSuccessContinues ==
    /\ LET failed == SelectSeq(Recorded, DidNotSucceed)
       IN  ChildDiagnostics = [i \in 1..Len(failed) |-> Diagnostic(failed[i].status)]
    /\ (pc \in {"finish", "exited"} /\ error = None)
          => /\ pos > Len(input)
             /\ Consumed = Len(AllLines)
             /\ ~dry_run => Len(procs) = Len(AllLines)
    /\ error \in {None, Some("decode"), Some("spawn")}

C7_Witness ==
    /\ pc = "exited"
    /\ error = None
    /\ Len(procs) >= 3
    /\ procs[1].status.signaled
    /\ procs[2].status.code = Some(1)
    /\ procs[3].status.code = Some(0)
    /\ Len(ChildDiagnostics) = 2

\* C8: an undecodable line aborts the run at once in both modes: neither it
\* nor any later line is described or spawned, each earlier line has been
\* processed exactly once, and the run exits with the non-zero failure code
\* rather than the value held in Last Status.
C8_DecodeErrorIsFatal ==
    HasBadLine =>
      LET bad == FirstBad
      IN  /\ Len(stdout) < bad
          /\ Len(launches) < bad
          /\ pc \in {"finish", "exited"} => error # None
          /\ error = Some("decode") =>
                /\ pc = "exited"
                /\ exit_code = Some(FailureCode)
                /\ FailureCode # SuccessCode
                /\ Consumed = bad
                /\ Len(stdout) = IF dry_run THEN bad - 1 ELSE 0
                /\ Len(launches) = IF dry_run THEN 0 ELSE bad - 1
                /\ Len(procs) = Len(launches)
                /\ Running = {}
                /\ Last(stderr) = ErrorReport("decode")

C8_Witness ==
    /\ error = Some("decode")
    /\ ~dry_run
    /\ Len(procs) >= 1
    /\ last_status = Some(2)
    /\ exit_code = Some(FailureCode)
    /\ Len(stdout) = 0

\* C9: with zero input lines nothing is spawned, nothing is written, Last
\* Status is never set and the run exits with 0, in both modes; and Last
\* Status is unset until the first executed command has completed.
C9_EmptyInput ==
    /\ input = <<>> =>
          /\ procs = <<>>
          /\ launches = <<>>
          /\ stdout = <<>>
          /\ stderr = <<>>
          /\ last_status = None
          /\ pc = "exited" => (error = None /\ exit_code = Some(SuccessCode))
    /\ Recorded = <<>> => last_status = None

C9_Witness ==
    /\ input = <<>>
    /\ pc = "exited"
    /\ exit_code = Some(SuccessCode)

\* C10: execution is strictly sequential: at most one subprocess is running,
\* only the one spawned for the current line, and whenever the dispatcher is
\* reading input or about to spawn, every earlier subprocess has terminated.
C10_Sequential ==
    /\ Cardinality(Running) <= 1
    /\ Running \subseteq {Len(procs)}
    /\ pc # "wait" => Running = {}
    /\ pc = "wait" => Consumed = Len(procs)

C10_Witness ==
    /\ pc = "wait"
    /\ Len(procs) = 2
    /\ procs[1].state = "terminated"
    /\ procs[2].state = "running"

====
